---- MODULE Spec2Model ----
(***************************************************************************)
(* A model of src/smote.py: the SMOTE sampler, the Borderline-SMOTE        *)
(* sampler and the SMOTEBoost fitting loop.                                 *)
(*                                                                          *)
(* Feature vectors are one-dimensional integer points.  A random gap is a   *)
(* multiple of 1/GapDen, and an interpolated row is stored multiplied by    *)
(* the denominator of its gap, so every value of the model is an exact      *)
(* integer.  Sample weights are exact fractions kept as integer numerators  *)
(* over a common denominator.                                               *)
(***************************************************************************)
EXTENDS Integers, Sequences, FiniteSets, TLC

VARIABLES
    smote,        \* the fields of a SMOTE instance
    borderline,   \* the fields of a BorderlineSMOTE instance
    boost,        \* the fields of a SMOTEBoost instance and the locals of its fit
    fits,         \* how many fit calls were made
    pyState,      \* the state of Python's global generator (random)
    last,         \* the last call made and how it ended
    firstSample   \* the first sample call since the last fit that returned

vars == <<smote, borderline, boost, fits, pyState, last, firstSample>>

----------------------------------------------------------------------------
\* Bounds of the model.

MaxK == 2
MaxRows == 3
MaxCoord == 1
MaxN == 2
GapDen == 2
RngMod == 4
MaxSeed == 0
MaxFits == 1
MaxBorderlineRows == 4
MaxBoostRows == 2
MaxRounds == 3
MaxSyn == 1

\* random_state=None, as a seed value outside the seeds.
NoSeed == 0 - 1

\* Values a call returns: None, an array of rows, or a pair (X, y).
\* or, from BorderlineSMOTE, a triple (S, safe rows, danger rows).
Ret(kind, rows, labels, safe, danger) ==
    [kind |-> kind, X |-> rows, y |-> labels, safe |-> safe, danger |-> danger]
RetNone == Ret("None", <<>>, <<>>, <<>>, <<>>)
RetRows(rows) == Ret("rows", rows, <<>>, <<>>, <<>>)
RetPair(rows, labels) == Ret("pair", rows, labels, <<>>, <<>>)
RetTriple(rows, safe, danger) == Ret("triple", rows, <<>>, safe, danger)
Labels == {0, 1}
Coords == 0..MaxCoord

SeqsUpTo(S, n) == UNION {[1..m -> S] : m \in 0..n}

----------------------------------------------------------------------------
\* The two pseudo-random generators.  Each is a deterministic stream: the
\* state decides the value drawn and the next state.  numpy's generator is
\* reseeded at the start of every sample call, so its state is local to the
\* call; Python's generator is never reseeded, so its state is a variable.

NextRng(s) == (5 * s + 3) % RngMod

\* np.random.seed(seed): a fixed seed gives one state, None takes entropy.
np_random_seed(seed) == IF seed = NoSeed THEN 0..(RngMod - 1) ELSE {seed % RngMod}

\* np.random.randint(0, high) as a 1-based row index.
np_random_randint(s, high) == (s % high) + 1

\* np.random.random(): the numerator of a gap in [0, 1).
np_random_random(s) == s % GapDen

\* random.choice(seq): draws from Python's generator, not numpy's.
choice(s, seq) == seq[(s % Len(seq)) + 1]

----------------------------------------------------------------------------
\* sklearn.neighbors.NearestNeighbors over a point set.

Abs(a) == IF a < 0 THEN -a ELSE a
Dist(a, b) == Abs(a - b)

\* The order in which an index lists rows at the same distance is not
\* specified by the library: lowest index first, or highest index first.
TieOrders == {"asc", "desc"}

Before(pts, q, tie, a, b) ==
    \/ Dist(pts[a], q) < Dist(pts[b], q)
    \/ /\ Dist(pts[a], q) = Dist(pts[b], q)
       /\ IF tie = "asc" THEN a < b ELSE a > b

Rank(pts, q, tie, a) == Cardinality({b \in DOMAIN pts : Before(pts, q, tie, b, a)}) + 1

\* NearestNeighbors(n_neighbors=n): constructed, not fitted yet.
NearestNeighbors(n) == [n_neighbors |-> n, fitted |-> FALSE, pts |-> <<>>, tie |-> "asc"]

\* NearestNeighbors.fit(pts): input validation rejects an empty array only.
NeighFitRaises(pts) == Len(pts) = 0
NeighFit(neigh, pts, tie) == [neigh EXCEPT !.fitted = TRUE, !.pts = pts, !.tie = tie]

\* kneighbors(q): raises when not fitted or when n_neighbors > rows.
KneighborsRaises(neigh) == ~neigh.fitted \/ neigh.n_neighbors > Len(neigh.pts)
kneighbors(neigh, q) ==
    [p \in 1..neigh.n_neighbors |->
        CHOOSE a \in DOMAIN neigh.pts : Rank(neigh.pts, q, neigh.tie, a) = p]

----------------------------------------------------------------------------
\* class SMOTE

SMOTE_init(k_neighbors, return_mode, random_state) ==
    [k |-> k_neighbors, return_mode |-> return_mode, random_state |-> random_state,
     hasX |-> FALSE, X |-> <<>>, minority_target |-> 1, n_features |-> 0,
     neigh |-> NearestNeighbors(0), hasNeigh |-> FALSE]

\* SMOTE.fit up to the point where the neighbour index is fitted.
SMOTE_fit_fields(obj, Xin, mt) ==
    [obj EXCEPT !.hasX = TRUE, !.X = Xin, !.minority_target = mt, !.n_features = 1,
                !.neigh = NearestNeighbors(obj.k + 1), !.hasNeigh = TRUE]

SMOTE_fit_raises(obj, Xin) == NeighFitRaises(Xin)

SMOTE_fit(obj, Xin, mt, tie) ==
    LET o == SMOTE_fit_fields(obj, Xin, mt)
    IN  IF SMOTE_fit_raises(obj, Xin) THEN o
        ELSE [o EXCEPT !.neigh = NeighFit(o.neigh, Xin, tie)]

\* The neighbours the loop chooses from: the query result without its first
\* entry.
NeighbourList(obj, j) == Tail(kneighbors(obj.neigh, obj.X[j]))

\* The loop of SMOTE.sample: n rows, each with the draws that made it.
RECURSIVE SampleRows(_, _, _, _)
SampleRows(obj, n, np, py) ==
    IF n = 0 THEN [rows |-> <<>>, np |-> np, py |-> py]
    ELSE LET j == np_random_randint(np, Len(obj.X))
             nn == NeighbourList(obj, j)
             nn_index == choice(py, nn)
             dif == obj.X[nn_index] - obj.X[j]
             gap == np_random_random(NextRng(np))
             row == [j |-> j, m |-> nn_index, gap |-> gap,
                     val |-> GapDen * obj.X[j] + gap * dif]
             rest == SampleRows(obj, n - 1, NextRng(NextRng(np)), NextRng(py))
         IN  [rows |-> <<row>> \o rest.rows, np |-> rest.np, py |-> rest.py]

\* sample raises: no fit yet, or the first neighbour query fails.
SMOTE_sample_raises(obj, n) ==
    IF ~obj.hasX THEN TRUE
    ELSE n > 0 /\ (~obj.hasNeigh \/ KneighborsRaises(obj.neigh))

Vals(rows) == [i \in DOMAIN rows |-> rows[i].val]
Scaled(pts) == [i \in DOMAIN pts |-> GapDen * pts[i]]

\* What sample returns for the rows made, by return_mode.
SMOTE_return(obj, rows) ==
    IF obj.return_mode = "append"
    THEN RetPair(Scaled(obj.X) \o Vals(rows),
                 [i \in 1..(Len(obj.X) + Len(rows)) |-> obj.minority_target])
    ELSE IF obj.return_mode = "only" THEN RetRows(Vals(rows))
    ELSE RetNone

----------------------------------------------------------------------------
\* The SMOTE sampler as a state machine.

SmoteModes == {"only", "append", "with_safe_and_danger"}
Seeds == {NoSeed} \cup 0..MaxSeed

NoZones == [safe |-> <<>>, danger |-> <<>>, noise |-> <<>>]
Call(op, n, rows, outcome, ret, draws, zones) ==
    [op |-> op, n |-> n, rows |-> rows, outcome |-> outcome, ret |-> ret,
     draws |-> draws, zones |-> zones]
NoLast == Call("none", 0, 0, "none", RetNone, <<>>, NoZones)
NoObject == [k |-> 0]
NoFirst == [called |-> FALSE, n |-> 0, ret |-> RetNone]

InitSmote ==
    /\ \E kk \in 1..MaxK, mode \in SmoteModes, seed \in Seeds :
          smote = SMOTE_init(kk, mode, seed)
    /\ pyState \in 0..(RngMod - 1)
    /\ last = NoLast
    /\ firstSample = NoFirst
    /\ fits = 0
    /\ borderline = NoObject
    /\ boost = NoObject

SmoteFit ==
    \E Xin \in SeqsUpTo(Coords, MaxRows), mt \in Labels, tie \in TieOrders :
        /\ fits < MaxFits
        /\ fits' = fits + 1
        /\ smote' = SMOTE_fit(smote, Xin, mt, tie)
        /\ last' = Call("fit", 0, Len(Xin),
                        IF SMOTE_fit_raises(smote, Xin) THEN "raised" ELSE "returned",
                        RetNone, <<>>, NoZones)
        /\ firstSample' = NoFirst
        /\ UNCHANGED <<pyState, borderline, boost>>

SmoteSampleRaise ==
    \E n \in 0..MaxN :
        /\ SMOTE_sample_raises(smote, n)
        /\ last' = Call("sample", n, Len(smote.X), "raised", RetNone, <<>>, NoZones)
        /\ UNCHANGED <<smote, pyState, firstSample, fits, borderline, boost>>

SmoteSampleReturn ==
    \E n \in 0..MaxN, np \in np_random_seed(smote.random_state) :
        /\ ~SMOTE_sample_raises(smote, n)
        /\ LET r == SampleRows(smote, n, np, pyState)
               ret == SMOTE_return(smote, r.rows)
           IN  /\ pyState' = r.py
               /\ last' = Call("sample", n, Len(smote.X), "returned", ret, r.rows, NoZones)
               /\ firstSample' = IF firstSample.called THEN firstSample
                                 ELSE [called |-> TRUE, n |-> n, ret |-> ret]
        /\ UNCHANGED <<smote, fits, borderline, boost>>

NextSmote == SmoteFit \/ SmoteSampleRaise \/ SmoteSampleReturn

SpecSmote == InitSmote /\ [][NextSmote]_vars

----------------------------------------------------------------------------
\* Claims about the SMOTE sampler.

\* m is one of the k nearest neighbours of row j among the other rows: fewer
\* than k rows other than j and m lie strictly closer to row j than m does.
IsKNearestOther(pts, kk, j, m) ==
    /\ m \in DOMAIN pts
    /\ m # j
    /\ Cardinality({b \in DOMAIN pts \ {j, m} :
                        Dist(pts[b], pts[j]) < Dist(pts[m], pts[j])}) < kk

SmoteSampled == last.op = "sample" /\ last.outcome = "returned"

C3_SameSeedSameRows ==
    (SmoteSampled /\ smote.random_state # NoSeed
        /\ firstSample.called /\ firstSample.n = last.n) =>
        last.ret = firstSample.ret

\* C6: fit on fewer than k+1 rows fails in fit itself.
C6_FitFailsOnTooFewRows ==
    (last.op = "fit" /\ last.rows < smote.k + 1) => last.outcome = "raised"

\* C9: a sample call under a return_mode that is neither 'only' nor 'append'
\* reports an error; it never completes returning nothing.
C9_UnknownModeIsAnError ==
    (last.op = "sample" /\ smote.return_mode \notin {"only", "append"}) =>
        last.outcome = "raised"

----------------------------------------------------------------------------
\* class BorderlineSMOTE

BorderlineSMOTE_init(k_neighbors, return_mode, random_state) ==
    [k |-> k_neighbors, return_mode |-> return_mode, random_state |-> random_state,
     fitted |-> FALSE, X |-> <<>>, y |-> <<>>, sample_count |-> 0,
     minority_target |-> 0, neigh |-> NearestNeighbors(0)]

Count(labels, c) == Cardinality({i \in DOMAIN labels : labels[i] = c})
FirstAt(labels, c) == CHOOSE i \in DOMAIN labels :
                         labels[i] = c /\ \A h \in 1..(i - 1) : labels[h] # c

\* min(Counter(y), key=count): the least frequent label, the one counted
\* first among equally frequent ones.
MinorityLabel(labels) ==
    CHOOSE c \in {labels[i] : i \in DOMAIN labels} :
        \A d \in {labels[i] : i \in DOMAIN labels} \ {c} :
            \/ Count(labels, c) < Count(labels, d)
            \/ Count(labels, c) = Count(labels, d) /\ FirstAt(labels, c) < FirstAt(labels, d)

BorderlineSMOTE_fit(obj, Xin, yin, tie) ==
    [obj EXCEPT !.fitted = TRUE, !.X = Xin, !.y = yin, !.sample_count = Len(Xin),
                !.minority_target = MinorityLabel(yin),
                !.neigh = NeighFit(NearestNeighbors(obj.k + 1), Xin, tie)]

\* The neighbours of row i the loop counts over: the query result without
\* its first entry.
BorderlineNeighbours(obj, i) == Tail(kneighbors(obj.neigh, obj.X[i]))

majority_neighbors(obj, nn) ==
    Cardinality({p \in DOMAIN nn : obj.y[nn[p]] # obj.minority_target})

\* One pass of the classification loop for row i.
Zone(obj, i) ==
    IF obj.y[i] # obj.minority_target THEN "other"
    ELSE LET nn == BorderlineNeighbours(obj, i)
             mn == majority_neighbors(obj, nn)
         IN  IF mn = Len(nn) THEN "noise"
             ELSE IF 2 * mn < Len(nn) THEN "safe"
             ELSE "danger"

\* The rows of a zone, in the order the loop appends them.
RECURSIVE ZoneIndices(_, _, _)
ZoneIndices(zoneOf, zone, i) ==
    IF i > Len(zoneOf) THEN <<>>
    ELSE (IF zoneOf[i] = zone THEN <<i>> ELSE <<>>) \o ZoneIndices(zoneOf, zone, i + 1)

\* The classification loop: safe_minority_indices, danger_minority_indices,
\* and the minority rows it skips (noise).
Zones(obj) ==
    LET zoneOf == CHOOSE f \in {[i \in 1..obj.sample_count |-> Zone(obj, i)]} : TRUE
    IN  [safe |-> ZoneIndices(zoneOf, "safe", 1),
         danger |-> ZoneIndices(zoneOf, "danger", 1),
         noise |-> ZoneIndices(zoneOf, "noise", 1)]

Rows(pts, idx) == [p \in DOMAIN idx |-> pts[idx[p]]]

\* The classification loop raises when its neighbour query does (every fitted
\* dataset has a row of the minority label).
ClassifyRaises(obj) == ~obj.fitted \/ KneighborsRaises(obj.neigh)

\* The classification loop of sample: whether it raised, and the lists made.
Classification(obj) ==
    IF ClassifyRaises(obj) THEN [raised |-> TRUE, zones |-> NoZones]
    ELSE [raised |-> FALSE, zones |-> Zones(obj)]

\* The sampler built on the danger rows.
DangerSmote(obj, zones, tie) ==
    SMOTE_fit(SMOTE_init(obj.k, "only", obj.random_state), Rows(obj.X, zones.danger), 1, tie)

\* After the classification loop, sample raises when the fit on the danger
\* rows or the sampling from them does.
BorderlineSMOTE_sample_raises(obj, cls, n) ==
    IF cls.raised THEN TRUE
    ELSE IF SMOTE_fit_raises(SMOTE_init(obj.k, "only", obj.random_state),
                             Rows(obj.X, cls.zones.danger))
    THEN TRUE
    ELSE SMOTE_sample_raises(DangerSmote(obj, cls.zones, "asc"), n)

BorderlineSMOTE_return(obj, zones, rows) ==
    IF obj.return_mode = "with_safe_and_danger"
    THEN RetTriple(Vals(rows), Scaled(Rows(obj.X, zones.safe)),
                   Scaled(Rows(obj.X, zones.danger)))
    ELSE IF obj.return_mode = "append"
    THEN RetPair(Scaled(obj.X) \o Vals(rows),
                 [i \in 1..(Len(obj.X) + Len(rows)) |-> obj.minority_target])
    ELSE IF obj.return_mode = "only" THEN RetRows(Vals(rows))
    ELSE RetNone

----------------------------------------------------------------------------
\* The Borderline-SMOTE sampler as a state machine.  A dataset has at least
\* one row.

BorderlineModes == {"only", "append", "with_safe_and_danger", "other"}

InitBorderline ==
    /\ \E kk \in 1..MaxK, mode \in BorderlineModes, seed \in Seeds :
          borderline = BorderlineSMOTE_init(kk, mode, seed)
    /\ pyState \in 0..(RngMod - 1)
    /\ last = NoLast
    /\ firstSample = NoFirst
    /\ fits = 0
    /\ smote = NoObject
    /\ boost = NoObject

BorderlineFit ==
    \E m \in 1..MaxBorderlineRows, tie \in TieOrders :
        \E Xin \in [1..m -> Coords], yin \in [1..m -> Labels] :
            /\ fits < MaxFits
            /\ fits' = fits + 1
            /\ borderline' = BorderlineSMOTE_fit(borderline, Xin, yin, tie)
            /\ last' = Call("fit", 0, m, "returned", RetNone, <<>>, NoZones)
            /\ UNCHANGED <<smote, boost, pyState, firstSample>>

BorderlineSampleRaise ==
    \E cls \in {Classification(borderline)} :
    \E n \in 0..MaxN :
        /\ BorderlineSMOTE_sample_raises(borderline, cls, n)
        /\ last' = Call("sample", n, borderline.sample_count, "raised", RetNone, <<>>,
                        cls.zones)
        /\ UNCHANGED <<smote, borderline, boost, fits, pyState, firstSample>>

BorderlineSampleReturn ==
    \E cls \in {Classification(borderline)} :
    \E n \in 0..MaxN, tie \in TieOrders :
        /\ ~BorderlineSMOTE_sample_raises(borderline, cls, n)
        /\ \E danger \in {DangerSmote(borderline, cls.zones, tie)} :
           \E np \in np_random_seed(borderline.random_state) :
           \E r \in {SampleRows(danger, n, np, pyState)} :
               /\ pyState' = r.py
               /\ last' = Call("sample", n, borderline.sample_count, "returned",
                               BorderlineSMOTE_return(borderline, cls.zones, r.rows),
                               r.rows, cls.zones)
        /\ UNCHANGED <<smote, borderline, boost, fits, firstSample>>

NextBorderline == BorderlineFit \/ BorderlineSampleRaise \/ BorderlineSampleReturn

SpecBorderline == InitBorderline /\ [][NextBorderline]_vars

----------------------------------------------------------------------------
\* Claims about the Borderline-SMOTE sampler.

Elems(seq) == {seq[p] : p \in DOMAIN seq}

\* The sets of k rows other than i that are nearest to row i: no row left out
\* is strictly closer than a row taken.
NearestSetsExcludingSelf(pts, kk, i) ==
    {N \in SUBSET (DOMAIN pts \ {i}) :
        /\ Cardinality(N) = kk
        /\ \A a \in N, b \in DOMAIN pts \ (N \cup {i}) :
               Dist(pts[a], pts[i]) <= Dist(pts[b], pts[i])}

MajorityIn(obj, N) == Cardinality({a \in N : obj.y[a] # obj.minority_target})

\* The sample call classified the rows (its classification loop completed).
BorderlineClassified ==
    /\ last.op = "sample"
    /\ borderline.fitted
    /\ ~KneighborsRaises(borderline.neigh)

InNoise(i) == i \in Elems(last.zones.noise)
InSafe(i) == i \in Elems(last.zones.safe)
InDanger(i) == i \in Elems(last.zones.danger)

\* C2: every minority row is in exactly one of noise, safe and danger, by the
\* number of non-minority rows among its k nearest neighbours other than
\* itself: noise iff all k, safe iff fewer than k/2, danger otherwise; a row
\* of another label is in none.
C2_ZonesByTrueNeighbours ==
    BorderlineClassified =>
        \A i \in DOMAIN borderline.X :
            IF borderline.y[i] # borderline.minority_target
            THEN ~InNoise(i) /\ ~InSafe(i) /\ ~InDanger(i)
            ELSE /\ Cardinality({z \in {"noise", "safe", "danger"} :
                        \/ z = "noise" /\ InNoise(i)
                        \/ z = "safe" /\ InSafe(i)
                        \/ z = "danger" /\ InDanger(i)}) = 1
                 /\ \E N \in NearestSetsExcludingSelf(borderline.X, borderline.k, i) :
                        LET mn == MajorityIn(borderline, N)
                        IN  /\ InNoise(i) <=> mn = borderline.k
                            /\ InSafe(i) <=> 2 * mn < borderline.k
                            /\ InDanger(i) <=> (borderline.k <= 2 * mn /\ mn < borderline.k)

\* C7: sample ends in an error whenever the danger rows are fewer than k+1,
\* for every n and every return mode.
C7_FewDangerRowsIsAnError ==
    (BorderlineClassified /\ Len(last.zones.danger) < borderline.k + 1) =>
        last.outcome = "raised"

----------------------------------------------------------------------------
\* class SMOTEBoost

\* np.zeros / np.ones: what the per-round records hold before a round records
\* into them (errors are in percent).
PlaceholderWeight == 0
PlaceholderError == 100

SMOTEBoost_init(k_neighbors, n_samples, n_estimators, learning_rate) ==
    [smote |-> SMOTE_init(k_neighbors, "only", NoSeed),
     n_samples |-> n_samples, n_estimators |-> n_estimators,
     learning_rate |-> learning_rate,
     pc |-> "new", iboost |-> 0, n0 |-> 0,
     X_i |-> <<>>, y_i |-> <<>>, w |-> <<>>, wden |-> 1, wIsNone |-> FALSE, syn |-> 0,
     estimators |-> 0, estimator_weights_ |-> <<>>, estimator_errors_ |-> <<>>,
     recorded |-> {}, executed |-> <<>>, stop |-> "", stopRound |-> 0,
     supplied |-> <<>>, pre |-> [X |-> <<>>, y |-> <<>>, w |-> <<>>], perm |-> <<>>]

RECURSIVE SumSeq(_)
SumSeq(seq) == IF seq = <<>> THEN 0 ELSE Head(seq) + SumSeq(Tail(seq))

AbsSeq(seq) == [i \in DOMAIN seq |-> Abs(seq[i])]

\* A normalize that leaves the weights as they are.
NormalizeL1_Skipped(nums, den) == [w |-> nums, wden |-> den]

\* sklearn.preprocessing.normalize(w, axis=0, norm='l1'): divide by the sum of
\* the absolute values, a zero sum being left alone.  The weights are
\* numerators over the denominator den.
NormalizeL1(nums, den) ==
    IF SumSeq(AbsSeq(nums)) = 0 THEN [w |-> nums, wden |-> den]
    ELSE [w |-> nums, wden |-> SumSeq(AbsSeq(nums))]

\* The weights of the pool with the synthetic weights 1/|pool| appended,
\* over the common denominator den * |pool|.
AppendSynWeights(nums, den, pool, nsyn) ==
    [w |-> [i \in DOMAIN nums |-> nums[i] * pool] \o [i \in 1..nsyn |-> den],
     wden |-> den * pool]

\* The fit fails before the loop: learning_rate <= 0, or sample weights are
\* supplied (check_array is not imported: a NameError).
SMOTEBoost_fit_raises(obj, sample_weight) ==
    obj.learning_rate <= 0 \/ sample_weight # <<>>

\* fit up to the loop: uniform weights, cleared records.
SMOTEBoost_fit_begin(obj, Xin, yin) ==
    [obj EXCEPT !.pc = IF obj.n_estimators = 0 THEN "done" ELSE "loop",
                !.iboost = 0, !.n0 = Len(Xin),
                !.X_i = Xin, !.y_i = yin,
                !.w = [i \in DOMAIN Xin |-> 1], !.wden = Len(Xin),
                !.estimators = 0,
                !.estimator_weights_ = [i \in 1..obj.n_estimators |-> PlaceholderWeight],
                !.estimator_errors_ = [i \in 1..obj.n_estimators |-> PlaceholderError]]

\* The label given to every synthetic row.
SynLabel == 1

\* The SMOTE step of a round, for the rows the sampler made: the pool grows
\* by them and the weights are re-normalized.  Pool rows are kept multiplied
\* by GapDen, like the synthetic rows.
SMOTEBoost_merge(obj, fitted, rows) ==
    LET nsyn == Len(rows)
        app == AppendSynWeights(obj.w, obj.wden, Len(obj.X_i), nsyn)
        nrm == NormalizeL1(app.w, app.wden)
    IN  [obj EXCEPT !.smote = fitted,
                    !.X_i = Scaled(obj.X_i) \o Vals(rows),
                    !.y_i = obj.y_i \o [i \in 1..nsyn |-> SynLabel],
                    !.w = nrm.w, !.wden = nrm.wden,
                    !.syn = nsyn,
                    !.executed = Append(obj.executed, obj.iboost),
                    !.pc = "merged"]

\* sklearn.utils.shuffle(X_i, y_i, sample_weight_i): one permutation for all.
Permute(seq, perm) == [p \in DOMAIN perm |-> seq[perm[p]]]

\* The permutations drawn: the identity and the rotation by one row.
ShufflePerms(n) == {[p \in 1..n |-> p], [p \in 1..n |-> (p % n) + 1]}

\* A pool of one row leaves a 0-d weight array after squeeze, which shuffle
\* rejects.
ShuffleRaises(obj) == Len(obj.w) = 1

\* A shuffle that permutes the rows and the weights and leaves the labels in
\* place.
SMOTEBoost_shuffle_LabelsInPlace(obj, perm) ==
    [obj EXCEPT !.X_i = Permute(obj.X_i, perm),
                !.w = Permute(obj.w, perm),
                !.pre = [X |-> obj.X_i, y |-> obj.y_i, w |-> obj.w],
                !.perm = perm,
                !.pc = "shuffled"]

SMOTEBoost_shuffle(obj, perm) ==
    [obj EXCEPT !.X_i = Permute(obj.X_i, perm),
                !.y_i = Permute(obj.y_i, perm),
                !.w = Permute(obj.w, perm),
                !.pre = [X |-> obj.X_i, y |-> obj.y_i, w |-> obj.w],
                !.perm = perm,
                !.pc = "shuffled"]

\* What one call of the trainer's _boost can give back: no weights, a
\* perfect fit, the weight of a misclassified row (the first handed over)
\* doubled, or weights that all underflowed to zero.
TrainerOutcomes(obj) ==
    {[kind |-> "none", w |-> <<>>, weight |-> 0, error |-> 0]}
    \cup {[kind |-> "perfect", w |-> obj.w, weight |-> 1, error |-> 0]}
    \cup {[kind |-> "update", w |-> [obj.w EXCEPT ![p] = 2 * obj.w[p]], weight |-> 1, error |-> 25] :
             p \in {1}}
    \cup {[kind |-> "collapse", w |-> [i \in DOMAIN obj.w |-> 0], weight |-> 1, error |-> 25]}

\* A round that records its pair before it looks at what the trainer gave.
SMOTEBoost_round_RecordsFirst(obj, t) ==
    LET r == obj.iboost + 1
        rec == [obj EXCEPT !.w = t.w,
                           !.estimators = obj.estimators + 1,
                           !.estimator_weights_[r] = t.weight,
                           !.estimator_errors_[r] = t.error,
                           !.recorded = obj.recorded \cup {obj.iboost}]
        total == SumSeq(t.w)
        isLast == ~(obj.iboost < obj.n_estimators - 1)
    IN  IF t.kind = "none"
        THEN [rec EXCEPT !.w = <<>>, !.wIsNone = TRUE, !.pc = "done",
                         !.estimators = obj.estimators,
                         !.stop = "none", !.stopRound = obj.iboost]
        ELSE IF t.error = 0
        THEN [rec EXCEPT !.pc = "done", !.stop = "zero_error", !.stopRound = obj.iboost]
        ELSE IF total <= 0
        THEN [rec EXCEPT !.pc = "done", !.stop = "nonpositive", !.stopRound = obj.iboost]
        ELSE IF isLast
        THEN [rec EXCEPT !.pc = "done"]
        ELSE [rec EXCEPT !.wden = total, !.iboost = obj.iboost + 1, !.pc = "loop"]

\* The boosting step of a round and the early termination that follows it.
SMOTEBoost_round(obj, t) ==
    LET r == obj.iboost + 1
        rec == [obj EXCEPT !.w = t.w,
                           !.estimators = obj.estimators + 1,
                           !.estimator_weights_[r] = t.weight,
                           !.estimator_errors_[r] = t.error,
                           !.recorded = obj.recorded \cup {obj.iboost}]
        total == SumSeq(t.w)
        isLast == ~(obj.iboost < obj.n_estimators - 1)
    IN  IF t.kind = "none"
        THEN [obj EXCEPT !.w = <<>>, !.wIsNone = TRUE, !.pc = "done",
                         !.stop = "none", !.stopRound = obj.iboost]
        ELSE IF t.error = 0
        THEN [rec EXCEPT !.pc = "done", !.stop = "zero_error", !.stopRound = obj.iboost]
        ELSE IF total <= 0
        THEN [rec EXCEPT !.pc = "done", !.stop = "nonpositive", !.stopRound = obj.iboost]
        ELSE IF isLast
        THEN [rec EXCEPT !.pc = "done"]
        ELSE [rec EXCEPT !.wden = total, !.iboost = obj.iboost + 1, !.pc = "loop"]

----------------------------------------------------------------------------
\* SMOTEBoost.fit as a state machine: one action per step of a round.  A
\* training set has at least one row.

SuppliedWeights(m) == {<<>>} \cup [1..m -> {0 - 1, 0, 1}]

InitBoost ==
    /\ \E kk \in 1..MaxK, ns \in 0..MaxSyn, ne \in 0..MaxRounds, lr \in {0, 1} :
          boost = SMOTEBoost_init(kk, ns, ne, lr)
    /\ pyState \in 0..(RngMod - 1)
    /\ last = NoLast
    /\ firstSample = NoFirst
    /\ fits = 0
    /\ smote = NoObject
    /\ borderline = NoObject

BoostFitRaise ==
    \E m \in 1..MaxBoostRows :
    \E sample_weight \in SuppliedWeights(m) :
        /\ boost.pc = "new"
        /\ SMOTEBoost_fit_raises(boost, sample_weight)
        /\ boost' = [boost EXCEPT !.pc = "raised", !.supplied = sample_weight, !.n0 = m]
        /\ UNCHANGED <<smote, borderline, fits, pyState, last, firstSample>>

BoostFitBegin ==
    \E m \in 1..MaxBoostRows :
    \E Xin \in [1..m -> Coords], yin \in [1..m -> Labels], sample_weight \in SuppliedWeights(m) :
        /\ boost.pc = "new"
        /\ ~SMOTEBoost_fit_raises(boost, sample_weight)
        /\ boost' = SMOTEBoost_fit_begin(boost, Xin, yin)
        /\ UNCHANGED <<smote, borderline, fits, pyState, last, firstSample>>

BoostSmoteRaise ==
    \E tie \in TieOrders :
    \E fitted \in {SMOTE_fit(boost.smote, boost.X_i, 1, tie)} :
        /\ boost.pc = "loop"
        /\ SMOTE_sample_raises(fitted, boost.n_samples)
        /\ boost' = [boost EXCEPT !.smote = fitted, !.pc = "raised"]
        /\ UNCHANGED <<smote, borderline, fits, pyState, last, firstSample>>

BoostSmoteMerge ==
    \E tie \in TieOrders :
    \E fitted \in {SMOTE_fit(boost.smote, boost.X_i, 1, tie)} :
        /\ boost.pc = "loop"
        /\ ~SMOTE_sample_raises(fitted, boost.n_samples)
        /\ \E np \in np_random_seed(fitted.random_state) :
           \E r \in {SampleRows(fitted, boost.n_samples, np, pyState)} :
               /\ pyState' = r.py
               /\ boost' = SMOTEBoost_merge(boost, fitted, r.rows)
        /\ UNCHANGED <<smote, borderline, fits, last, firstSample>>

BoostShuffleRaise ==
    /\ boost.pc = "merged"
    /\ ShuffleRaises(boost)
    /\ boost' = [boost EXCEPT !.pc = "raised"]
    /\ UNCHANGED <<smote, borderline, fits, pyState, last, firstSample>>

BoostShuffle ==
    /\ boost.pc = "merged"
    /\ ~ShuffleRaises(boost)
    /\ \E perm \in ShufflePerms(Len(boost.X_i)) :
          boost' = SMOTEBoost_shuffle(boost, perm)
    /\ UNCHANGED <<smote, borderline, fits, pyState, last, firstSample>>

BoostRound ==
    /\ boost.pc = "shuffled"
    /\ \E t \in TrainerOutcomes(boost) :
          boost' = SMOTEBoost_round(boost, t)
    /\ UNCHANGED <<smote, borderline, fits, pyState, last, firstSample>>

NextBoost ==
    \/ BoostFitRaise \/ BoostFitBegin
    \/ BoostSmoteRaise \/ BoostSmoteMerge
    \/ BoostShuffleRaise \/ BoostShuffle
    \/ BoostRound

SpecBoost == InitBoost /\ [][NextBoost]_vars

----------------------------------------------------------------------------
\* Claims about SMOTEBoost.fit.

\* C4: in every round, once the synthetic rows are appended and the weights
\* re-normalized, the weights of the pool are non-negative and sum to 1.
C4_MergedWeightsSumToOne ==
    boost.pc = "merged" =>
        /\ boost.wden > 0
        /\ \A i \in DOMAIN boost.w : boost.w[i] >= 0
        /\ SumSeq(boost.w) = boost.wden

\* A later round is merged after the trainer changed the weights unevenly.
C4_Witness ==
    /\ boost.pc = "merged"
    /\ boost.iboost >= 1
    /\ boost.syn >= 1
    /\ \E i, j \in DOMAIN boost.w : boost.w[i] # boost.w[j]

\* C5: rounds run in order from 0, each completed round records its pair
\* once; after a stop condition fires at round r no later round runs; an
\* entry never recorded keeps its placeholder, the entry of round r included
\* when the trainer gave no weights back.
C5_RoundsAndRecords ==
    /\ Len(boost.executed) <= boost.n_estimators
    /\ \A i \in DOMAIN boost.executed : boost.executed[i] = i - 1
    /\ boost.recorded \subseteq Elems(boost.executed)
    /\ boost.pc = "loop" =>
           /\ Len(boost.executed) = boost.iboost
           /\ boost.recorded = 0..(boost.iboost - 1)
    /\ boost.stop # "" =>
           /\ boost.pc = "done"
           /\ Len(boost.executed) = boost.stopRound + 1
           /\ boost.recorded = IF boost.stop = "none" THEN 0..(boost.stopRound - 1)
                                ELSE 0..boost.stopRound
    /\ (boost.pc = "done" /\ boost.stop = "") =>
           boost.recorded = 0..(boost.n_estimators - 1)
    /\ \A i \in DOMAIN boost.estimator_weights_ :
           (i - 1) \notin boost.recorded =>
               /\ boost.estimator_weights_[i] = PlaceholderWeight
               /\ boost.estimator_errors_[i] = PlaceholderError

\* The trainer gave no weights back in a round after the first, with rounds
\* still to go.
C5_Witness ==
    /\ boost.pc = "done"
    /\ boost.stop = "none"
    /\ boost.stopRound >= 1
    /\ boost.stopRound + 1 < boost.n_estimators
    /\ boost.estimator_errors_[boost.stopRound] # PlaceholderError
    /\ boost.estimator_errors_[boost.stopRound + 1] = PlaceholderError

IsPermutation(perm, n) ==
    /\ DOMAIN perm = 1..n
    /\ {perm[p] : p \in DOMAIN perm} = 1..n

\* C8: supplied sample weights with a non-positive sum end fit in an error
\* before any round and any estimator; supplied weights with a positive sum
\* are normalized to sum to 1 and the fit proceeds.
C8_SuppliedWeights ==
    (boost.pc # "new" /\ boost.learning_rate > 0 /\ boost.supplied # <<>>) =>
        IF SumSeq(boost.supplied) <= 0
        THEN boost.pc = "raised" /\ boost.executed = <<>> /\ boost.estimators = 0
        ELSE boost.pc # "raised" /\ SumSeq(boost.w) = boost.wden

\* C10: when round r hands the pool to the trainer, features, labels and
\* weights all have n0 + (r+1) * n_samples entries and are one permutation of
\* the merged pool; the merged pool is the pool the sampler was fitted on,
\* followed by n_samples rows labelled 1.
C10_PoolGrowsAndStaysAligned ==
    LET total == boost.n0 + (boost.iboost + 1) * boost.n_samples
    IN  /\ boost.pc \in {"merged", "shuffled"} =>
               /\ Len(boost.X_i) = total
               /\ Len(boost.y_i) = total
               /\ Len(boost.w) = total
               /\ Len(boost.smote.X) = total - boost.n_samples
        /\ boost.pc = "merged" =>
               /\ boost.syn = boost.n_samples
               /\ SubSeq(boost.X_i, 1, total - boost.n_samples) = Scaled(boost.smote.X)
               /\ \A p \in (total - boost.n_samples + 1)..total : boost.y_i[p] = 1
        /\ boost.pc = "shuffled" =>
               /\ IsPermutation(boost.perm, total)
               /\ \A p \in 1..total :
                      /\ boost.X_i[p] = boost.pre.X[boost.perm[p]]
                      /\ boost.y_i[p] = boost.pre.y[boost.perm[p]]
                      /\ boost.w[p] = boost.pre.w[boost.perm[p]]

\* The second round hands over a pool that was really permuted and holds
\* both labels and unequal weights.
C10_Witness ==
    /\ boost.pc = "shuffled"
    /\ boost.iboost = 1
    /\ boost.n_samples >= 1
    /\ \E p \in DOMAIN boost.perm : boost.perm[p] # p
    /\ \E p, q \in DOMAIN boost.y_i : boost.y_i[p] # boost.y_i[q]
    /\ \E p, q \in DOMAIN boost.w : boost.w[p] # boost.w[q]

====
